---- MODULE Spec2Model ----
(***************************************************************************)
(* A model of krasin/schematic, reader.go: the NBT tag reader (nbtReader), *)
(* the schema parser (schematicReader.Parse, ReadEntities, ReadEntity),    *)
(* the entry point ReadSchematic and the query Schematic.Get.              *)
(*                                                                         *)
(* The decompressed tag stream is a sequence of bytes (0..255).  A string  *)
(* is the sequence of its bytes.  A Go int is kept as eight limbs of eight *)
(* bits, least significant first: the 64-bit two's-complement pattern of   *)
(* its value, so that sums and products wrap as Go's do and no product is  *)
(* too large to compute.  The source is written against os.Error, so it    *)
(* builds with the toolchains that precede Go 1, where int is 32 bits      *)
(* wide: every value is the sign extension of its low four limbs.          *)
(***************************************************************************)
EXTENDS Integers, Sequences, FiniteSets, TLC

VARIABLES
    intBits,   \* width of Go's int in the build: 32
    gzipOk,    \* whether gzip.NewReader accepts the input's header
    stream,    \* the decompressed tag stream
    pos,       \* bytes of stream consumed so far (the bufio cursor)
    pc,        \* where the decode stands
    s,         \* Parse's local s: Nil, or Ptr(Schematic under construction)
    entities,  \* ReadEntities's local accumulator
    vol,       \* the *Schematic that ReadSchematic returned
    err,       \* the error that ReadSchematic returned
    got        \* the last query made on the returned Schematic

vars == <<intBits, gzipOk, stream, pos, pc, s, entities, vol, err, got>>

----------------------------------------------------------------------------
(* Tag kinds, reader.go lines 11-23. *)
TAG_END == 0
TAG_BYTE == 1
TAG_SHORT == 2
TAG_INT == 3
TAG_BYTE_ARRAY == 7
TAG_STRING == 8
TAG_LIST == 9
TAG_COMPOUND == 10

(* The names Parse compares against, as byte strings. *)
Name_Schematic == <<83, 99, 104, 101, 109, 97, 116, 105, 99>>
Name_Width == <<87, 105, 100, 116, 104>>
Name_Length == <<76, 101, 110, 103, 116, 104>>
Name_Height == <<72, 101, 105, 103, 104, 116>>
Name_Materials == <<77, 97, 116, 101, 114, 105, 97, 108, 115>>
Name_Blocks == <<66, 108, 111, 99, 107, 115>>
Name_Data == <<68, 97, 116, 97>>
Name_WEOffsetX == <<87, 69, 79, 102, 102, 115, 101, 116, 88>>
Name_WEOffsetY == <<87, 69, 79, 102, 102, 115, 101, 116, 89>>
Name_WEOffsetZ == <<87, 69, 79, 102, 102, 115, 101, 116, 90>>
Name_Entities == <<69, 110, 116, 105, 116, 105, 101, 115>>
Name_Alpha == <<65, 108, 112, 104, 97>>

(* Error values.  NoErr is Go's nil error. *)
NoErr == "nil"
EOF == "EOF"
ErrUnexpectedEOF == "unexpected EOF"
ErrGzipHeader == "gzip: invalid header"
ErrTopLevel == "Top level tag must be compound"
ErrRootName == "Unexpected tag name, want: Schematic"
ErrUnexpectedTag == "Unexpected tag"
ErrMaterials == "Materials must have 'Alpha' value"
ErrEntityField == "Unknown entity field"
(* A run-time panic is not an error value: nothing is returned. *)
PanicMakeSlice == "panic: makeslice: len out of range"
(* Nor is the runtime giving up on an allocation: the process ends. *)
FatalOutOfMemory == "fatal error: out of memory"

(* A nil pointer, and a pointer to v. *)
Nil == <<>>
Ptr(v) == <<v>>

----------------------------------------------------------------------------
(* Go's int.  LimbsOf(n, k) is the k low limbs of the integer n (n % 256   *)
(* and n \div 256 round down, so a negative n is sign-extended); IntOf(n)  *)
(* is the conversion int(n).                                               *)
RECURSIVE LimbsOf(_, _)
LimbsOf(n, k) == IF k = 0 THEN <<>> ELSE <<n % 256>> \o LimbsOf(n \div 256, k - 1)

IntOf(n) == LimbsOf(n, 8)

IsNegative(v) == v[8] >= 128

(* What an int of `bits` bits keeps of a 64-bit pattern. *)
Wrap(v, bits) ==
    IF bits = 32
    THEN LET e == IF v[4] >= 128 THEN 255 ELSE 0
         IN  <<v[1], v[2], v[3], v[4], e, e, e, e>>
    ELSE v

(* a + b *)
RECURSIVE AddFrom(_, _, _, _)
AddFrom(a, b, k, carry) ==
    IF k > Len(a) THEN <<>>
    ELSE LET t == a[k] + b[k] + carry
         IN  <<t % 256>> \o AddFrom(a, b, k + 1, t \div 256)

AddInt(a, b, bits) == Wrap(AddFrom(a, b, 1, 0), bits)

(* a * b: the k-th column of the long multiplication, then the carries. *)
RECURSIVE Column(_, _, _, _)
Column(a, b, k, i) ==
    IF i > k THEN 0 ELSE a[i] * b[k + 1 - i] + Column(a, b, k, i + 1)

RECURSIVE MulFrom(_, _, _, _)
MulFrom(a, b, k, carry) ==
    IF k > Len(a) THEN <<>>
    ELSE LET t == Column(a, b, k, 1) + carry
         IN  <<t % 256>> \o MulFrom(a, b, k + 1, t \div 256)

MulInt(a, b, bits) == Wrap(MulFrom(a, b, 1, 0), bits)

(* v << 8 *)
Shl8(v, bits) == Wrap(<<0>> \o SubSeq(v, 1, Len(v) - 1), bits)

(* The accumulation done in an int that is 64 bits wide. *)
ShlAdd_Wide(v, b, bits) == AddInt(Shl8(v, 64), IntOf(b), 64)

(* val <<= 8; val += int(b), in an int of `bits` bits. *)
ShlAdd(v, b, bits) == AddInt(Shl8(v, bits), IntOf(b), bits)

(* a < b *)
RECURSIVE LessFrom(_, _, _)
LessFrom(a, b, k) ==
    IF k = 0 THEN FALSE
    ELSE IF a[k] # b[k] THEN a[k] < b[k]
    ELSE LessFrom(a, b, k - 1)

LessInt(a, b) ==
    IF IsNegative(a) # IsNegative(b) THEN IsNegative(a) ELSE LessFrom(a, b, Len(a))

(* An int in 0..2^31-1 as a number: a count of bytes of a stream. *)
FitsNat(v) == v[4] < 128 /\ v[5] = 0 /\ v[6] = 0 /\ v[7] = 0 /\ v[8] = 0
NatOf(v) == v[1] + 256 * v[2] + 65536 * v[3] + 16777216 * v[4]

(* A []byte: its length, and the bytes that were stored in it from the     *)
(* front; the elements behind them are zero (make zeroes the slice).       *)
Slice(len, data) == [len |-> len, data |-> data]
NilSlice == Slice(IntOf(0), <<>>)
(* b[i] is in range: 0 <= i < len(b). *)
InSlice(b, i) == ~IsNegative(i) /\ LessInt(i, b.len)
Elem(b, i) == IF FitsNat(i) /\ NatOf(i) < Len(b.data) THEN b.data[NatOf(i) + 1] ELSE 0

----------------------------------------------------------------------------
(* io.ReadFull(r.r, buf) with len(buf) = n: all n bytes, or what is left   *)
(* and os.EOF (nothing read) or io.ErrUnexpectedEOF (some read).  n = 0    *)
(* reads nothing and succeeds.                                             *)
ReadFull(in, p, n) ==
    LET avail == Len(in) - p
    IN  IF avail >= n
        THEN [data |-> SubSeq(in, p + 1, p + n), pos |-> p + n, err |-> NoErr]
        ELSE [data |-> SubSeq(in, p + 1, Len(in)), pos |-> Len(in),
              err |-> IF avail = 0 THEN EOF ELSE ErrUnexpectedEOF]

(* ReadByte with its error dropped: at the end of input the caller sees a  *)
(* zero byte, which is the End kind.                                       *)
ReadByte_EOFAsZero(in, p) ==
    IF p < Len(in)
    THEN [val |-> in[p + 1], pos |-> p + 1, err |-> NoErr]
    ELSE [val |-> 0, pos |-> p, err |-> NoErr]

(* r.r.ReadByte() *)
ReadByte(in, p) ==
    IF p < Len(in)
    THEN [val |-> in[p + 1], pos |-> p + 1, err |-> NoErr]
    ELSE [val |-> 0, pos |-> p, err |-> EOF]

(* nbtReader.ReadShort: two bytes, big endian, not sign-extended; the sum  *)
(* is below 2^16 and wraps in no int.                                      *)
ReadShort(in, p) ==
    LET r == ReadFull(in, p, 2)
    IN  IF r.err # NoErr
        THEN [val |-> IntOf(0), pos |-> r.pos, err |-> r.err]
        ELSE [val |-> IntOf(r.data[2] + r.data[1] * 256), pos |-> r.pos,
              err |-> NoErr]

(* nbtReader.ReadInt: four bytes shifted into an int. *)
ReadInt(in, p, bits) ==
    LET r == ReadFull(in, p, 4)
    IN  IF r.err # NoErr
        THEN [val |-> IntOf(0), pos |-> r.pos, err |-> r.err]
        ELSE [val |-> ShlAdd(ShlAdd(ShlAdd(ShlAdd(IntOf(0), r.data[1], bits),
                                           r.data[2], bits),
                                    r.data[3], bits),
                             r.data[4], bits),
              pos |-> r.pos, err |-> NoErr]

(* nbtReader.ReadString: a ReadShort length, then that many bytes. *)
ReadString(in, p) ==
    LET l == ReadShort(in, p)
        r == ReadFull(in, l.pos, NatOf(l.val))
    IN  IF l.err # NoErr THEN [val |-> <<>>, pos |-> l.pos, err |-> l.err]
        ELSE IF r.err # NoErr THEN [val |-> <<>>, pos |-> r.pos, err |-> r.err]
        ELSE [val |-> r.data, pos |-> r.pos, err |-> NoErr]

(* nbtReader.ReadTagTyp: the kind byte alone. *)
ReadTagTyp(in, p) == ReadByte(in, p)

(* nbtReader.ReadTagName: the kind byte and, unless it is End, the name. *)
ReadTagName(in, p) ==
    LET t == ReadByte(in, p)
        n == ReadString(in, t.pos)
    IN  IF t.err # NoErr
        THEN [typ |-> t.val, name |-> <<>>, pos |-> t.pos, err |-> t.err]
        ELSE IF t.val = TAG_END
        THEN [typ |-> t.val, name |-> <<>>, pos |-> t.pos, err |-> NoErr]
        ELSE [typ |-> t.val, name |-> n.val, pos |-> n.pos, err |-> n.err]

(* The largest value of ReadShort, so the longest string ReadString makes. *)
MaxShort == 255 + 255 * 256

(* make([]byte, l) of more than a string's length: whether the runtime has *)
(* the memory is not the program's to decide.  Shorter slices are taken to *)
(* be delivered.                                                           *)
LargeAlloc(l) == LessInt(IntOf(MaxShort), l)

(* nbtReader.ReadByteArray: a ReadInt length l, make([]byte, l), ReadFull. *)
(* make panics on a negative l, and where the runtime is out of memory     *)
(* (oom) the process dies in it.  On a short read the slice, l long and    *)
(* filled as far as the input went, is returned with the error.  A length  *)
(* of 2^31 or more is longer than what is left of any stream.              *)
ReadByteArray(in, p, bits, oom) ==
    LET l == ReadInt(in, p, bits)
        r == ReadFull(in, l.pos,
                      IF FitsNat(l.val) THEN NatOf(l.val) ELSE Len(in) - l.pos + 1)
    IN  IF l.err # NoErr THEN [val |-> NilSlice, pos |-> l.pos, err |-> l.err]
        ELSE IF IsNegative(l.val)
        THEN [val |-> NilSlice, pos |-> l.pos, err |-> PanicMakeSlice]
        ELSE IF LargeAlloc(l.val) /\ oom
        THEN [val |-> NilSlice, pos |-> l.pos, err |-> FatalOutOfMemory]
        ELSE [val |-> Slice(l.val, r.data), pos |-> r.pos, err |-> r.err]

----------------------------------------------------------------------------
(* type Schematic, and new(Schematic): every field zero. *)
ZeroSchematic ==
    [Width |-> IntOf(0), Length |-> IntOf(0), Height |-> IntOf(0),
     WEOffsetX |-> IntOf(0), WEOffsetY |-> IntOf(0), WEOffsetZ |-> IntOf(0),
     Materials |-> <<>>, Blocks |-> NilSlice, Data |-> NilSlice,
     Entities |-> <<>>]

(* type Entity, zero value. *)
ZeroEntity == [Id |-> <<>>]

(* The decode's own state, as one record, so that the steps below are      *)
(* functions of it: both the actions and Decode apply them.                *)
StartState ==
    [pc |-> "Start", pos |-> 0, s |-> Nil, entities |-> <<>>,
     vol |-> Nil, err |-> NoErr]

Terminal == {"Done", "Failed", "Panicked", "Crashed"}

(* ReadSchematic returns (v, e) after consuming the input up to p. *)
Returned(st, p, v, e) ==
    [st EXCEPT !.pc = IF e = NoErr THEN "Done" ELSE "Failed",
               !.pos = p, !.vol = v, !.err = e]

(* A run-time panic unwinds ReadSchematic: nothing is returned. *)
Panicked(st, p) == [st EXCEPT !.pc = "Panicked", !.pos = p]

(* The runtime ends the process: nothing is returned. *)
Crashed(st, p) == [st EXCEPT !.pc = "Crashed", !.pos = p]

(* ReadSchematic up to the call of Parse: newSchematicReader and           *)
(* newNbtReader fail exactly when gzip.NewReader does.                     *)
ReadSchematic(st, gz) ==
    IF gz THEN [st EXCEPT !.pc = "ExpectRoot"]
    ELSE Returned(st, st.pos, Nil, ErrGzipHeader)

(* Parse's two tests of the root tag. *)
RootError(typ, name) ==
    IF typ # TAG_COMPOUND THEN ErrTopLevel
    ELSE IF name # Name_Schematic THEN ErrRootName
    ELSE NoErr

(* Parse, lines 166-178: the root tag header. *)
ParseRoot(st, in) ==
    LET h == ReadTagName(in, st.pos)
    IN  IF h.err # NoErr THEN Returned(st, h.pos, st.s, h.err)
        ELSE IF RootError(h.typ, h.name) # NoErr
        THEN Returned(st, h.pos, Nil, RootError(h.typ, h.name))
        ELSE [st EXCEPT !.pc = "ReadingFields", !.pos = h.pos,
                        !.s = Ptr(ZeroSchematic)]

(* Parse, lines 179-213: one iteration of the member loop.  The switch is  *)
(* on the name alone; the kind byte typ is not looked at.  A field is      *)
(* assigned whatever its reader returned, also when that came with an      *)
(* error, and the bare return then hands back s itself.                    *)
ParseField(st, in, bits, oom) ==
    LET h == ReadTagName(in, st.pos)
        cur == st.s[1]
        sh == ReadShort(in, h.pos)
        str == ReadString(in, h.pos)
        ba == ReadByteArray(in, h.pos, bits, oom)
        i32 == ReadInt(in, h.pos, bits)
        After(new, r) ==
            IF r.err = PanicMakeSlice THEN Panicked(st, r.pos)
            ELSE IF r.err = FatalOutOfMemory THEN Crashed(st, r.pos)
            ELSE IF r.err # NoErr
            THEN Returned([st EXCEPT !.s = Ptr(new)], r.pos, Ptr(new), r.err)
            ELSE [st EXCEPT !.pos = r.pos, !.s = Ptr(new)]
    IN  IF h.err # NoErr THEN Returned(st, h.pos, st.s, h.err)
        ELSE IF h.typ = TAG_END
        THEN [st EXCEPT !.pc = "ExpectVariantCheck", !.pos = h.pos]
        ELSE CASE h.name = Name_Width -> After([cur EXCEPT !.Width = sh.val], sh)
               [] h.name = Name_Length -> After([cur EXCEPT !.Length = sh.val], sh)
               [] h.name = Name_Height -> After([cur EXCEPT !.Height = sh.val], sh)
               [] h.name = Name_Materials ->
                      After([cur EXCEPT !.Materials = str.val], str)
               [] h.name = Name_Blocks -> After([cur EXCEPT !.Blocks = ba.val], ba)
               [] h.name = Name_Data -> After([cur EXCEPT !.Data = ba.val], ba)
               [] h.name = Name_WEOffsetX ->
                      After([cur EXCEPT !.WEOffsetX = i32.val], i32)
               [] h.name = Name_WEOffsetY ->
                      After([cur EXCEPT !.WEOffsetY = i32.val], i32)
               [] h.name = Name_WEOffsetZ ->
                      After([cur EXCEPT !.WEOffsetZ = i32.val], i32)
               [] h.name = Name_Entities ->
                      [st EXCEPT !.pc = "ReadingEntities", !.pos = h.pos,
                                 !.entities = <<>>]
               [] OTHER -> Returned(st, h.pos, Nil, ErrUnexpectedTag)

(* The Materials test made only when a Materials member was read. *)
MaterialsError_IfPresent(sch) ==
    IF sch.Materials # <<>> /\ sch.Materials # Name_Alpha THEN ErrMaterials ELSE NoErr

(* Parse's test of Materials after the member loop. *)
MaterialsError(sch) ==
    IF sch.Materials # Name_Alpha THEN ErrMaterials ELSE NoErr

(* Parse, lines 214-217: the check after the root End. *)
ParseEnd(st) ==
    IF MaterialsError(st.s[1]) # NoErr
    THEN Returned(st, st.pos, Nil, MaterialsError(st.s[1]))
    ELSE Returned(st, st.pos, st.s, NoErr)

(* s.Entities, err = r.ReadEntities() followed by Parse's return on err:   *)
(* what ReadEntities had collected is stored before Parse returns s.       *)
EntitiesFailed(st, p, e) ==
    LET new == Ptr([st.s[1] EXCEPT !.Entities = st.entities])
    IN  Returned([st EXCEPT !.s = new], p, new, e)

(* ReadEntities, lines 146-164: one iteration of the list loop.  The body  *)
(* of `if typ == TAG_COMPOUND` is empty: every kind but End is an entity.  *)
ReadEntities(st, in) ==
    LET t == ReadTagTyp(in, st.pos)
    IN  IF t.err # NoErr THEN EntitiesFailed(st, t.pos, t.err)
        ELSE IF t.val = TAG_END
        THEN [st EXCEPT !.pc = "ReadingFields", !.pos = t.pos,
                        !.s = Ptr([st.s[1] EXCEPT !.Entities = st.entities])]
        ELSE [st EXCEPT !.pc = "ReadingEntity", !.pos = t.pos]

(* A switch that lets every entity field pass. *)
EntityFieldError_Skip(name) == NoErr

(* ReadEntity's switch on the field name: it has the default case only. *)
EntityFieldError(name) == ErrEntityField

(* ReadEntity, lines 127-144: one iteration of the field loop; on End the  *)
(* entity is appended by ReadEntities (line 161).                          *)
ReadEntity(st, in) ==
    LET h == ReadTagName(in, st.pos)
    IN  IF h.err # NoErr THEN EntitiesFailed(st, h.pos, h.err)
        ELSE IF h.typ = TAG_END
        THEN [st EXCEPT !.pc = "ReadingEntities", !.pos = h.pos,
                        !.entities = Append(st.entities, ZeroEntity)]
        ELSE IF EntityFieldError(h.name) # NoErr
        THEN EntitiesFailed(st, h.pos, EntityFieldError(h.name))
        ELSE [st EXCEPT !.pos = h.pos]

(* One step of the decode from st. *)
Step(st, in, bits, gz, oom) ==
    CASE st.pc = "Start" -> ReadSchematic(st, gz)
      [] st.pc = "ExpectRoot" -> ParseRoot(st, in)
      [] st.pc = "ReadingFields" -> ParseField(st, in, bits, oom)
      [] st.pc = "ExpectVariantCheck" -> ParseEnd(st)
      [] st.pc = "ReadingEntities" -> ReadEntities(st, in)
      [] st.pc = "ReadingEntity" -> ReadEntity(st, in)
      [] OTHER -> st

(* The whole call ReadSchematic(input): the steps until it returns, panics *)
(* or dies.                                                                *)
RECURSIVE Run(_, _, _, _, _)
Run(st, in, bits, gz, oom) ==
    IF st.pc \in Terminal THEN st
    ELSE Run(Step(st, in, bits, gz, oom), in, bits, gz, oom)

Decode(in, bits, gz, oom) == Run(StartState, in, bits, gz, oom)

----------------------------------------------------------------------------
(* Schematic.XLen, YLen, ZLen. *)
XLen(sch) == sch.Width
YLen(sch) == sch.Height
ZLen(sch) == sch.Length

(* Get's guard without its last test. *)
OutOfRange_NoZ(sch, x, y, z) ==
    \/ IsNegative(x) \/ IsNegative(y) \/ IsNegative(z)
    \/ ~LessInt(x, XLen(sch)) \/ ~LessInt(y, YLen(sch))

(* Get's guard, line 233. *)
OutOfRange(sch, x, y, z) ==
    \/ IsNegative(x) \/ IsNegative(y) \/ IsNegative(z)
    \/ ~LessInt(x, XLen(sch)) \/ ~LessInt(y, YLen(sch)) \/ ~LessInt(z, ZLen(sch))

(* Get's index with y and z taken for each other. *)
Index_SwapYZ(sch, x, y, z, bits) ==
    AddInt(AddInt(MulInt(MulInt(z, XLen(sch), bits), YLen(sch), bits),
                  MulInt(y, XLen(sch), bits), bits),
           x, bits)

(* Get's index, line 236: y*s.XLen()*s.ZLen() + z*s.XLen() + x in int. *)
Index(sch, x, y, z, bits) ==
    AddInt(AddInt(MulInt(MulInt(y, XLen(sch), bits), ZLen(sch), bits),
                  MulInt(z, XLen(sch), bits), bits),
           x, bits)

(* Schematic.Get: the result, the index of Blocks it read (Nil: none), and *)
(* whether the read panicked (index out of range).  Data is never read.    *)
Get(sch, x, y, z, bits) ==
    LET index == Index(sch, x, y, z, bits)
    IN  IF OutOfRange(sch, x, y, z)
        THEN [val |-> FALSE, read |-> Nil, panic |-> FALSE]
        ELSE IF ~InSlice(sch.Blocks, index)
        THEN [val |-> FALSE, read |-> Ptr(index), panic |-> TRUE]
        ELSE [val |-> Elem(sch.Blocks, index) # 0, read |-> Ptr(index),
              panic |-> FALSE]

----------------------------------------------------------------------------
(* The inputs.  A document is the root header, an optional leading group   *)
(* of members, up to MaxMembers members of Members, and the root End.  The *)
(* streams are these documents, every prefix of the documents of up to     *)
(* MaxCutMembers members followed by one more byte (so: each cut short at  *)
(* every offset, and each followed by a byte the decode never reads),      *)
(* streams with another root, and a document whose dimensions are the      *)
(* largest a Short can hold over a Blocks buffer of one byte (there the    *)
(* index of an in-bounds coordinate reaches 2^32), and a Blocks member     *)
(* that announces 2^16 bytes and brings two.                               *)
MaxMembers == 2
MaxCutMembers == 1
MaxCoord == 2

U16(n) == <<n \div 256, n % 256>>
Str(name) == U16(Len(name)) \o name
Hdr(kind, name) == <<kind>> \o Str(name)

Name_Classic == <<67, 108, 97, 115, 115, 105, 99>>
Name_TileEntities == <<84, 105, 108, 101, 69, 110, 116, 105, 116, 105, 101, 115>>
Name_Level == <<76, 101, 118, 101, 108>>
Name_id == <<105, 100>>

Members ==
    { Hdr(TAG_SHORT, Name_Width) \o <<0, 1>>,
      Hdr(TAG_INT, Name_Width) \o <<0, 1>>,
      Hdr(TAG_STRING, Name_Materials) \o Str(Name_Alpha),
      Hdr(TAG_STRING, Name_Materials) \o Str(Name_Classic),
      Hdr(TAG_BYTE_ARRAY, Name_Blocks) \o <<0, 0, 0, 1, 1>>,
      Hdr(TAG_BYTE_ARRAY, Name_Blocks) \o <<255, 255, 255, 255>>,
      Hdr(TAG_BYTE_ARRAY, Name_Data) \o <<0, 0, 0, 8, 1, 0, 0, 0, 0, 0, 0, 0>>,
      Hdr(TAG_INT, Name_WEOffsetX) \o <<255, 255, 255, 254>>,
      Hdr(TAG_INT, Name_WEOffsetZ) \o <<128, 0, 0, 0>>,
      Hdr(TAG_LIST, Name_Entities) \o <<TAG_COMPOUND, TAG_END, TAG_COMPOUND, TAG_END, TAG_END>>,
      Hdr(TAG_LIST, Name_Entities) \o <<TAG_COMPOUND>> \o Hdr(TAG_STRING, Name_id)
          \o Str(<<80, 105, 103>>) \o <<TAG_END, TAG_END>>,
      Hdr(TAG_LIST, Name_Entities) \o <<TAG_BYTE, TAG_END, TAG_END>>,
      Hdr(TAG_LIST, Name_TileEntities) \o <<TAG_END>> }

Dims ==
    Hdr(TAG_SHORT, Name_Width) \o <<0, 2>> \o Hdr(TAG_SHORT, Name_Length) \o <<0, 2>>
        \o Hdr(TAG_SHORT, Name_Height) \o <<0, 2>>

Heads ==
    { <<>>, Dims,
      Dims \o Hdr(TAG_INT, Name_WEOffsetY) \o <<0, 0, 0, 5>>
           \o Hdr(TAG_BYTE_ARRAY, Name_Blocks) \o <<0, 0, 0, 8, 0, 1, 0, 0, 0, 0, 2, 0>> }

RECURSIVE MemberSeqs(_)
MemberSeqs(n) ==
    IF n = 0 THEN {<<>>}
    ELSE LET shorter == MemberSeqs(n - 1)
         IN  shorter \cup {x \o m : x \in shorter, m \in Members}

Root == Hdr(TAG_COMPOUND, Name_Schematic)

Documents(n) == {Root \o h \o ms \o <<TAG_END>> : h \in Heads, ms \in MemberSeqs(n)}

Prefixes(S) == UNION {{SubSeq(x, 1, k) : k \in 0..Len(x)} : x \in S}

Wide ==
    Root \o Hdr(TAG_SHORT, Name_Width) \o <<255, 255>>
         \o Hdr(TAG_SHORT, Name_Length) \o <<255, 255>>
         \o Hdr(TAG_SHORT, Name_Height) \o <<0, 2>>
         \o Hdr(TAG_BYTE_ARRAY, Name_Blocks) \o <<0, 0, 0, 1, 1>>
         \o Hdr(TAG_STRING, Name_Materials) \o Str(Name_Alpha) \o <<TAG_END>>

Long == Root \o Hdr(TAG_BYTE_ARRAY, Name_Blocks) \o <<0, 1, 0, 0, 1, 2>>

OtherRoots ==
    { Hdr(TAG_LIST, Name_Schematic) \o <<TAG_END>>,
      Hdr(TAG_COMPOUND, Name_Level) \o <<TAG_END>>,
      <<TAG_END>> \o Hdr(TAG_STRING, Name_Materials) \o Str(Name_Alpha) \o <<TAG_END>> }

Streams ==
    Documents(MaxMembers)
        \cup Prefixes({d \o <<TAG_BYTE_ARRAY>> : d \in Documents(MaxCutMembers)})
        \cup OtherRoots
        \cup {Wide, Long}

Coords == -1..MaxCoord

NoGot == <<>>

----------------------------------------------------------------------------
Init ==
    /\ intBits = 32
    /\ \/ gzipOk = TRUE /\ stream \in Streams
       \/ gzipOk = FALSE /\ stream = <<>>
    /\ pos = StartState.pos
    /\ pc = StartState.pc
    /\ s = StartState.s
    /\ entities = StartState.entities
    /\ vol = StartState.vol
    /\ err = StartState.err
    /\ got = NoGot

Cur == [pc |-> pc, pos |-> pos, s |-> s, entities |-> entities,
        vol |-> vol, err |-> err]

Become(n) ==
    /\ pc' = n.pc
    /\ pos' = n.pos
    /\ s' = n.s
    /\ entities' = n.entities
    /\ vol' = n.vol
    /\ err' = n.err
    /\ UNCHANGED <<intBits, gzipOk, stream, got>>

(* ReadSchematic opens the reader. *)
Open == pc = "Start" /\ Become(ReadSchematic(Cur, gzipOk))

(* Parse reads the root tag. *)
DoParseRoot == pc = "ExpectRoot" /\ Become(ParseRoot(Cur, stream))

(* Parse runs one iteration of its member loop; whether the runtime is out *)
(* of memory when the iteration allocates is open.                         *)
DoParseField ==
    /\ pc = "ReadingFields"
    /\ \E oom \in BOOLEAN : Become(ParseField(Cur, stream, intBits, oom))

(* Parse checks Materials and returns. *)
DoParseEnd == pc = "ExpectVariantCheck" /\ Become(ParseEnd(Cur))

(* ReadEntities runs one iteration of its loop. *)
DoReadEntities == pc = "ReadingEntities" /\ Become(ReadEntities(Cur, stream))

(* ReadEntity runs one iteration of its loop. *)
DoReadEntity == pc = "ReadingEntity" /\ Become(ReadEntity(Cur, stream))

(* The caller queries the Schematic it holds: a first call of Get, or the  *)
(* same call again.                                                        *)
Query ==
    /\ pc \in {"Done", "Constructed"}
    /\ \E x \in Coords, y \in Coords, z \in Coords :
           /\ IF got = NoGot THEN TRUE
              ELSE <<got[1].x, got[1].y, got[1].z>> = <<x, y, z>>
           /\ got' = <<[x |-> x, y |-> y, z |-> z,
                         r |-> Get(vol[1], IntOf(x), IntOf(y), IntOf(z), intBits)]>>
    /\ UNCHANGED <<intBits, gzipOk, stream, pos, pc, s, entities, vol, err>>

DecodeNext ==
    \/ Open
    \/ DoParseRoot
    \/ DoParseField
    \/ DoParseEnd
    \/ DoReadEntities
    \/ DoReadEntity

Next == DecodeNext \/ Query

Spec == Init /\ [][Next]_vars

----------------------------------------------------------------------------
(* Get on any Schematic value: the fields are exported, so a caller can    *)
(* hold one with any dimensions and buffers, decoded or not.               *)
MaxDim == 2
MaxBuf == 2

RECURSIVE ByteSeqs(_)
ByteSeqs(n) ==
    IF n = 0 THEN {<<>>}
    ELSE LET shorter == ByteSeqs(n - 1)
         IN  shorter \cup {Append(x, b) : x \in {y \in shorter : Len(y) = n - 1},
                                          b \in {0, 1}}

SliceOf(data) == Slice(IntOf(Len(data)), data)

Schematics ==
    { [ZeroSchematic EXCEPT !.Width = IntOf(w), !.Length = IntOf(l),
                            !.Height = IntOf(h),
                            !.Blocks = SliceOf(b), !.Data = SliceOf(d)] :
        w \in -1..MaxDim, l \in -1..MaxDim, h \in -1..MaxDim,
        b \in ByteSeqs(MaxBuf), d \in {<<>>, <<1, 1, 1, 1, 1, 1, 1, 1>>} }

InitGet ==
    /\ intBits = 32
    /\ gzipOk = TRUE
    /\ stream = <<>>
    /\ pos = 0
    /\ pc = "Constructed"
    /\ s = Nil
    /\ entities = <<>>
    /\ vol \in {Ptr(sch) : sch \in Schematics}
    /\ err = NoErr
    /\ got = NoGot

SpecGet == InitGet /\ [][Query]_vars

----------------------------------------------------------------------------
(* What the stream holds at an offset, read off the bytes directly.        *)

(* A whole tag header (kind other than End, length, name) starts at p. *)
HeaderAt(in, p) ==
    /\ p + 3 <= Len(in)
    /\ in[p + 1] # TAG_END
    /\ p + 3 + in[p + 2] * 256 + in[p + 3] <= Len(in)
KindAt(in, p) == in[p + 1]
NameEnd(in, p) == p + 3 + in[p + 2] * 256 + in[p + 3]
NameAt(in, p) == SubSeq(in, p + 4, NameEnd(in, p))

KnownNames ==
    {Name_Width, Name_Length, Name_Height, Name_Materials, Name_Blocks, Name_Data,
     Name_WEOffsetX, Name_WEOffsetY, Name_WEOffsetZ, Name_Entities}

RequiredKind(name) ==
    CASE name \in {Name_Width, Name_Length, Name_Height} -> TAG_SHORT
      [] name = Name_Materials -> TAG_STRING
      [] name \in {Name_Blocks, Name_Data} -> TAG_BYTE_ARRAY
      [] name \in {Name_WEOffsetX, Name_WEOffsetY, Name_WEOffsetZ} -> TAG_INT
      [] OTHER -> TAG_LIST

(* The int v has the value m. *)
Is(v, m) == v = IntOf(m)

InBounds(sch, x, y, z) ==
    /\ 0 <= x /\ LessInt(IntOf(x), sch.Width)
    /\ 0 <= y /\ LessInt(IntOf(y), sch.Height)
    /\ 0 <= z /\ LessInt(IntOf(z), sch.Length)

(* The flattening order of the specification, y*(Width*Length) + z*Width   *)
(* + x: with dimensions of at most 2^16 - 1 nothing wraps in 64 bits.      *)
FlatIndex(sch, x, y, z) ==
    AddInt(AddInt(MulInt(IntOf(y), MulInt(sch.Width, sch.Length, 64), 64),
                  MulInt(IntOf(z), sch.Width, 64), 64),
           IntOf(x), 64)

(* The stream begins with the bytes pre. *)
StartsWith(in, pre) == Len(in) >= Len(pre) /\ SubSeq(in, 1, Len(pre)) = pre

(* The i-th byte of a buffer that is at least i + 1 long. *)
ByteOf(b, i) == IF FitsNat(i) /\ NatOf(i) < Len(b.data) THEN b.data[NatOf(i) + 1] ELSE 0
HasIndex(b, i) == ~IsNegative(i) /\ LessInt(i, b.len)

----------------------------------------------------------------------------
(* C1: whenever ReadSchematic returns a non-nil error, the Schematic it    *)
(* returns with it is nil.                                                 *)
C1_ErrorImpliesNil == pc = "Failed" => vol = Nil

(* C2: when a stream decodes successfully and its last byte is the root    *)
(* End the decode consumed, decoding any proper prefix of it fails, with   *)
(* an end-of-input error (the prefix's decode being given the memory the   *)
(* successful one was given).                                              *)
C2_TruncatedFails ==
    (pc = "Done" /\ got = NoGot /\ pos = Len(stream)) =>
        \A k \in 0..(Len(stream) - 1) :
            LET cut == Decode(SubSeq(stream, 1, k), intBits, gzipOk, FALSE)
            IN  cut.pc = "Failed" /\ cut.err \in {EOF, ErrUnexpectedEOF}

C2_Witness ==
    /\ pc = "Done" /\ pos = Len(stream)
    /\ Is(vol[1].Blocks.len, 8) /\ Is(vol[1].Data.len, 8)

(* C3, as stated: for an in-bounds coordinate of a decoded Schematic, Get  *)
(* is true exactly when the 16-bit code, low byte Blocks[index] and high   *)
(* byte Data[index], is non-zero (taken where Get returns at all).         *)
C3_GetIsCodeNonZero ==
    (pc = "Done" /\ got # NoGot /\ InBounds(vol[1], got[1].x, got[1].y, got[1].z)
        /\ ~got[1].r.panic) =>
        LET i == FlatIndex(vol[1], got[1].x, got[1].y, got[1].z)
        IN  got[1].r.val
                <=> (ByteOf(vol[1].Blocks, i) + 256 * ByteOf(vol[1].Data, i) # 0)

(* C3, amended: for an in-bounds coordinate of a decoded Schematic, with   *)
(* i the flattening index as the build's int holds it (wrapped to 32       *)
(* bits): if Blocks has an element i, Get reads that element and is true   *)
(* exactly when it is non-zero, whatever Data holds;                       *)
(* if it has none, Get panics.  The same call again gives the same result. *)
C3_GetIsBlockNonZero ==
    /\ [](  (pc = "Done" /\ got # NoGot
               /\ InBounds(vol[1], got[1].x, got[1].y, got[1].z)) =>
            LET i == Wrap(FlatIndex(vol[1], got[1].x, got[1].y, got[1].z), intBits)
            IN  IF HasIndex(vol[1].Blocks, i)
                THEN /\ ~got[1].r.panic
                     /\ got[1].r.read = Ptr(i)
                     /\ got[1].r.val <=> (ByteOf(vol[1].Blocks, i) # 0)
                ELSE got[1].r.panic )
    /\ [][(pc = "Done" /\ got # NoGot /\ got' # NoGot) => got' = got]_vars

C3_Witness ==
    /\ pc = "Done" /\ got # NoGot
    /\ InBounds(vol[1], got[1].x, got[1].y, got[1].z)
    /\ ~got[1].r.panic
    /\ ~got[1].r.val
    /\ ByteOf(vol[1].Data, FlatIndex(vol[1], got[1].x, got[1].y, got[1].z)) # 0

(* C4: for any Schematic and any coordinate outside the box on some axis,  *)
(* Get returns false and reads no element of a buffer.                     *)
C4_OutsideIsFalse ==
    (got # NoGot /\ ~InBounds(vol[1], got[1].x, got[1].y, got[1].z)) =>
        /\ got[1].r.val = FALSE
        /\ got[1].r.read = Nil
        /\ ~got[1].r.panic

C4_Witness ==
    /\ got # NoGot
    /\ got[1].x = 0 /\ got[1].y = 0 /\ Is(vol[1].Length, got[1].z)
    /\ LessInt(IntOf(0), vol[1].Width) /\ LessInt(IntOf(0), vol[1].Height)
    /\ LessInt(IntOf(0), vol[1].Length)
    /\ Is(vol[1].Blocks.len, MaxBuf)

(* C5: a root member with a recognised name and a kind other than the one  *)
(* the schema requires for it, and an entity-list element whose kind is    *)
(* neither End nor Compound, make the decode fail.                         *)
C5_WrongKindFails ==
    [][ /\ (pc = "ReadingFields" /\ HeaderAt(stream, pos)
              /\ NameAt(stream, pos) \in KnownNames \ {Name_Entities}
              /\ KindAt(stream, pos) # RequiredKind(NameAt(stream, pos)))
           => pc' = "Failed"
        /\ (pc = "ReadingEntities" /\ pos < Len(stream)
              /\ stream[pos + 1] \notin {TAG_END, TAG_COMPOUND})
           => pc' = "Failed" ]_vars

(* C6: the decode fails when the root tag is not a Compound named          *)
(* Schematic, when a root member has a name outside the ten known names,   *)
(* and when Materials is not Alpha at the root End.                        *)
C6_SchemaViolationFails ==
    [][ /\ (pc = "ExpectRoot" /\ ~StartsWith(stream, Root))
           => pc' = "Failed" /\ vol' = Nil
        /\ (pc = "ReadingFields" /\ HeaderAt(stream, pos)
              /\ NameAt(stream, pos) \notin KnownNames)
           => pc' = "Failed" /\ err' = ErrUnexpectedTag /\ vol' = Nil
        /\ (pc = "ExpectVariantCheck" /\ s[1].Materials # Name_Alpha)
           => pc' = "Failed" /\ err' = ErrMaterials /\ vol' = Nil
        /\ (pc' = "Done")
           => /\ StartsWith(stream, Root)
              /\ vol'[1].Materials = Name_Alpha ]_vars

C6_Witness ==
    pc = "Failed" /\ err = ErrMaterials /\ s[1].Materials = <<>> /\ Is(s[1].Width, 2)

(* C7: an entity with a member tag makes the decode fail, with the         *)
(* unknown-entity-field error when the member's header is whole; the       *)
(* entity loop goes on only past an entity that ends at once with End.     *)
C7_EntityFieldFails ==
    [][ /\ (pc = "ReadingEntity" /\ pos < Len(stream) /\ stream[pos + 1] # TAG_END)
           => /\ pc' = "Failed"
              /\ HeaderAt(stream, pos) => err' = ErrEntityField
        /\ (pc = "ReadingEntity" /\ pc' # "Failed")
           => /\ pos < Len(stream) /\ stream[pos + 1] = TAG_END
              /\ pc' = "ReadingEntities" /\ pos' = pos + 1
              /\ Len(entities') = Len(entities) + 1 ]_vars

C7_Witness ==
    pc = "Failed" /\ err = ErrEntityField /\ pos < Len(stream)

(* C8: ReadInt returns the big-endian two's-complement 32-bit value of its *)
(* four bytes: within -2^31..2^31-1, negative when the first byte has its  *)
(* top bit set.  Stated of the three offsets Parse reads with it.          *)
TwosComplement32(b) ==
    LET e == IF b[1] >= 128 THEN 255 ELSE 0
    IN  <<b[4], b[3], b[2], b[1], e, e, e, e>>

C8_ReadIntIsInt32 ==
    [][ (pc = "ReadingFields" /\ HeaderAt(stream, pos)
           /\ NameAt(stream, pos) \in {Name_WEOffsetX, Name_WEOffsetY, Name_WEOffsetZ}
           /\ NameEnd(stream, pos) + 4 <= Len(stream)) =>
        LET b == SubSeq(stream, NameEnd(stream, pos) + 1, NameEnd(stream, pos) + 4)
            v == IF NameAt(stream, pos) = Name_WEOffsetX THEN s'[1].WEOffsetX
                 ELSE IF NameAt(stream, pos) = Name_WEOffsetY THEN s'[1].WEOffsetY
                 ELSE s'[1].WEOffsetZ
        IN  /\ v = TwosComplement32(b)
            /\ LessInt(v, IntOf(0)) <=> b[1] >= 128 ]_vars

C8_Witness ==
    /\ pc = "Failed" /\ err = ErrMaterials
    /\ s[1].WEOffsetX = IntOf(-2)
    /\ s[1].WEOffsetY = IntOf(5)
    /\ s[1].WEOffsetZ = IntOf(-2147483647 - 1)

(* C9: after a successful decode Blocks is Width*Length*Height long, and   *)
(* no query of an in-bounds coordinate reads outside it.                   *)
C9_BlocksFitDimensions ==
    pc = "Done" =>
        /\ vol[1].Blocks.len
               = MulInt(MulInt(vol[1].Width, vol[1].Length, 64), vol[1].Height, 64)
        /\ got # NoGot => ~got[1].r.panic

(* The decode has a step left to take: the guards of DecodeNext's actions. *)
Running ==
    pc \in {"Start", "ExpectRoot", "ReadingFields", "ExpectVariantCheck",
            "ReadingEntities", "ReadingEntity"}

(* C10: the decode of a finite stream ends in Done or in Failed: when no   *)
(* step of it is left to take, it has returned a Schematic or an error.    *)
C10_EndsDoneOrFailed == Running \/ pc \in {"Done", "Failed"}

(* What holds of C10: every iteration of the three loops consumes at least *)
(* one byte or ends the decode, so the decode of a finite stream stops.    *)
LoopsConsume ==
    [][(pc \in {"ReadingFields", "ReadingEntities", "ReadingEntity"}) =>
           (pos' > pos \/ pc' \in Terminal)]_vars

====
